---------------------------- MODULE Spec2Model ----------------------------
(***************************************************************************)
(* pixf: extraction of the images of a PDF, removal of byte-identical      *)
(* duplicates and, for png/webp, concurrent re-encoding by a worker pool.  *)
(*                                                                         *)
(* Entry points modelled:                                                  *)
(*   ExtractImagesUnique(filename, imgDir)            (in-place removal)   *)
(*   ExtractImagesFromFile(filename, imgDir, format)                       *)
(*     format "original"/""  -> processExtractedFilesSequential            *)
(*     format png/webp       -> extractImagesConcurrent                    *)
(*                              -> processImagesConcurrently               *)
(*                                                                         *)
(* One goroutine step (a channel operation, an atomic load or store, the   *)
(* getBuffer of writeImageFile, the rest of writeImageFile up to its       *)
(* deferred putBuffer, one iteration of a sequential loop) is one action.  *)
(* The system calls ahead of the loops (os.Mkdir, os.MkdirTemp,            *)
(* api.ExtractImagesFile, os.ReadDir) succeed or fail as the call's fault  *)
(* says; the temporary directory is removed by the deferred os.RemoveAll.  *)
(***************************************************************************)
EXTENDS Naturals, Sequences, FiniteSets, TLC

\* Bounds of the model.
MaxFiles == 3
MaxWorkers == 3
FewWorkers == 2

(***************************************************************************)
(* The files the external extractor may produce.  A file is its extension, *)
(* its bytes and whether it can be read; its name is its position in the   *)
(* sorted listing of os.ReadDir followed by the extension, so names are    *)
(* distinct and the listing is sorted.                                     *)
(*   "img"  : a parseable image that encodes and writes fine               *)
(*   "pic"  : another one                                                  *)
(*   "wide" : a parseable image the encoder rejects (Encode returns error) *)
(*   "big"  : a parseable image whose bytes exceed what the output         *)
(*            directory accepts (os.WriteFile fails, leaving a truncated   *)
(*            file behind)                                                 *)
(*   "junk" : bytes image.Decode cannot parse                              *)
(***************************************************************************)
FileUniverse ==
    { [ext |-> ".png",  data |-> "img",  readable |-> TRUE],
      [ext |-> ".JPG",  data |-> "img",  readable |-> TRUE],
      [ext |-> ".png",  data |-> "pic",  readable |-> TRUE],
      [ext |-> ".png",  data |-> "wide", readable |-> TRUE],
      [ext |-> ".webp", data |-> "big",  readable |-> TRUE],
      [ext |-> ".xyz",  data |-> "img",  readable |-> TRUE],
      [ext |-> "",      data |-> "img",  readable |-> TRUE],
      [ext |-> ".png",  data |-> "junk", readable |-> TRUE],
      [ext |-> ".png",  data |-> "img",  readable |-> FALSE] }

\* The files that reach the worker pool: recognized, readable, parseable.
PoolFiles == { f \in FileUniverse :
                 f.ext \in {".png", ".webp"} /\ f.readable /\ f.data # "junk" }

SeqsUpTo(S, n) == UNION { [1..k -> S] : k \in 0..n }

Formats == {"original", "", "PNG", "webp", "gif"}

\* The system calls that may fail before the files are looked at: os.Mkdir of
\* the output directory, os.MkdirTemp, api.ExtractImagesFile, os.ReadDir.
Faults == {"none", "mkdir", "mkdirtemp", "extract", "readdir"}

\* Values of the environment variable PIXF_WORKERS ("" is unset).
EnvValues == { ToString(n) : n \in 1..MaxWorkers }

\* ----------------------------------------------------------------- helpers

\* strings.ToLower on the strings of the model.
ToLower(s) ==
    CASE s = "PNG"  -> "png"
      [] s = ".JPG" -> ".jpg"
      [] OTHER      -> s

\* filepath.Ext of a file's name.
Ext(f) == f.ext

\* The name of the k-th entry of the listing.
FileName(k, f) == "p" \o ToString(k) \o f.ext

\* Faulty variant: every name is taken for an image.
isImageFileAny(f) == TRUE

isImageFile(f) ==
    LET ext == ToLower(Ext(f))
    IN  ext \in {".png", ".jpg", ".jpeg", ".gif", ".bmp", ".tiff", ".webp"}

\* hashBytes: the hex SHA-256 digest of the bytes (collision-free here).
hashBytes(data) == "sha256:" \o data

\* Faulty variant: every byte string decodes.
DecodeAlways(data) == FALSE

\* image.Decode followed by toRGBA.
DecodeFails(data) == data = "junk"
toRGBA(data) == "rgba:" \o data

\* Faulty variant: every name has an encoder.
GetEncoderAny(fmt) == TRUE

\* encoderRegistry / GetEncoder.
encoderRegistry == {"png", "webp"}
GetEncoderOK(fmt) == ToLower(fmt) \in encoderRegistry
GetEncoder(fmt) == ToLower(fmt)
Extension(enc) == "." \o enc

\* Encoder.Encode: the encoder rejects the wide image.
EncodeFails(enc, img) == img = toRGBA("wide")
Encode(enc, img) == [enc |-> enc, of |-> img, whole |-> TRUE]

\* The raw bytes of a file as written verbatim.
Raw(data) == [enc |-> "raw", of |-> data, whole |-> TRUE]

\* Faulty variant: the directory is emptied before the write.
WriteFileAlone(dir, name, bytes) ==
    { [name |-> name, bytes |-> bytes] }

\* os.WriteFile: bytes too large for the output directory are cut short.
TooBig(bytes) == bytes.of \in {"big", toRGBA("big")}
Truncated(bytes) == [bytes EXCEPT !.whole = FALSE]
WriteFile(dir, name, bytes) ==
    { e \in dir : e.name # name } \cup
    { [name |-> name,
       bytes |-> IF TooBig(bytes) THEN Truncated(bytes) ELSE bytes] }

\* fmt.Sprintf("%04d", n)
Pad4(n) ==
    IF n < 10 THEN "000" \o ToString(n)
    ELSE IF n < 100 THEN "00" \o ToString(n)
    ELSE IF n < 1000 THEN "0" \o ToString(n)
    ELSE ToString(n)

\* fmt.Sprintf("image_%04d%s", n, ext)
ImageName(n, ext) == "image_" \o Pad4(n) \o ext

\* Error values; Nil is Go's nil error.
Nil == [kind |-> "nil", what |-> ""]
Err(kind, what) == [kind |-> kind, what |-> what]

\* getWorkerCount
DefaultWorkerCount == 4
AtoiOK(val) == \E n \in 0..9 : ToString(n) = val
Atoi(val) == CHOOSE n \in 0..9 : ToString(n) = val
getWorkerCount(val) ==
    IF val # "" /\ AtoiOK(val) /\ Atoi(val) > 0
    THEN Atoi(val)
    ELSE DefaultWorkerCount

NoTask == [Index |-> 0, Img |-> "none"]

VARIABLES
    \* the call and its environment
    input,          \* what api.ExtractImagesFile produces: the sorted listing
    mode,           \* "unique" (ExtractImagesUnique) or "fromfile"
    format,         \* the format argument of ExtractImagesFromFile
    env,            \* PIXF_WORKERS
    fault,          \* the system call that fails in this call, or "none"
    run,            \* 1: first run, 2: the same call repeated on the same input
    prevOut,        \* the output directory the first run ended with
    \* the caller (main goroutine)
    pc,
    result,         \* the returned error
    files,          \* the listing read by os.ReadDir
    imgDir,         \* the output directory: a set of [name, bytes]
    i,              \* loop index
    seen,           \* seen / imgHashes
    dupCount,       \* dupCount / countDuplicates
    uniqueCount,
    encoder,
    loadedImages,
    uniqueImages,
    \* processImagesConcurrently
    tasks,
    numWorkers,
    taskChan,
    taskClosed,
    resultChan,
    resultClosed,
    wg,
    failed,
    sendErr,
    wpc,            \* per worker: idle, recv, check, getbuf, write, store, send, exited
    wtask,          \* per worker: the task it holds
    werr,           \* per worker: err of writeImageFile
    \* the file system besides imgDir, and bufferPool
    tempDir,        \* the directory of os.MkdirTemp: "absent", "present", "removed"
    bufferPool,     \* the buffers in the sync.Pool
    bufData,        \* the contents of every buffer made by New, by buffer
    wbuf,           \* per worker: the buffer writeImageFile holds (0: none)
    \* history (observations only, never read by an action's guard)
    kept,           \* positions of the input files that survived dedup, in order
    recvCount,      \* set of [Index, n]: receives per task
    callCount,      \* set of [Index, n]: calls of writeImageFile per task
    writeCount,     \* set of [name, n]: os.WriteFile calls per path
    arrivals,       \* the non-nil errors sent on resultChan, in send order
    firstStore,     \* the error of the worker whose Store first set the flag
    lateFails,      \* writeImageFile calls that failed after the flag was set
    lateWrites,     \* writeImageFile calls that succeeded after the flag was set
    recorded,       \* number of results sent on resultChan
    declined,       \* Index of every task dropped at the flag check
    extractCalls,   \* number of calls of api.ExtractImagesFile
    readFiles,      \* positions of the files handed to os.ReadFile
    firstStorer     \* the worker whose Store first set the flag (0: none)

callVars == <<input, mode, format, env, fault>>
runVars  == <<run, prevOut>>
loopVars == <<i, seen, dupCount, uniqueCount, loadedImages, uniqueImages, kept>>
chanVars == <<taskChan, taskClosed, resultChan, resultClosed, wg, failed, sendErr>>
workVars == <<wpc, wtask, werr>>
histVars == <<recvCount, callCount, writeCount, arrivals, firstStore, lateFails, lateWrites,
              recorded, declined>>
bufVars  == <<bufferPool, bufData, wbuf>>
ioVars   == <<extractCalls, readFiles, firstStorer>>
vars == <<callVars, runVars, pc, result, files, imgDir, encoder, loopVars,
          tasks, numWorkers, chanVars, workVars, histVars, tempDir, bufVars, ioVars>>

Workers == 1..(IF MaxWorkers > FewWorkers THEN MaxWorkers ELSE FewWorkers)

\* Faulty variant: the hash is not recorded.
MarkSeenForgotten(s, hash) == s

\* seen[hash] = true
MarkSeen(s, hash) == s \cup {hash}

\* Faulty variant: the image is put in front.
KeepImageInFront(u, li) == <<li>> \o u

\* uniqueImages = append(uniqueImages, li)
KeepImage(u, li) == Append(u, li)

\* Faulty variant: the received task stays in the buffer.
DequeueLeavesTask(ch) == ch

\* What a receive leaves in a channel's buffer.
Dequeue(ch) == Tail(ch)

\* Faulty variant: a later error replaces the first.
LastError(cur, err) == IF err # Nil THEN err ELSE cur

\* if err != nil && sendErr == nil { sendErr = err }
FirstError(cur, err) == IF err # Nil /\ cur = Nil THEN err ELSE cur

\* A counter kept as a set of [key, n] records.
Count(S, k) == IF \E e \in S : e.key = k
               THEN (CHOOSE e \in S : e.key = k).n ELSE 0
Bump(S, k) == { e \in S : e.key # k } \cup { [key |-> k, n |-> Count(S, k) + 1] }

Concurrent(m, fmt) == m = "fromfile" /\ fmt \notin {"original", ""} /\ GetEncoderOK(fmt)

\* The state of a run before its first step.
Fresh ==
    /\ pc = "start"
    /\ result = Nil
    /\ files = <<>>
    /\ imgDir = {}
    /\ encoder = ""
    /\ i = 1
    /\ seen = {}
    /\ dupCount = 0
    /\ uniqueCount = 0
    /\ loadedImages = <<>>
    /\ uniqueImages = <<>>
    /\ kept = <<>>
    /\ tasks = <<>>
    /\ numWorkers = 0
    /\ taskChan = <<>>
    /\ taskClosed = FALSE
    /\ resultChan = <<>>
    /\ resultClosed = FALSE
    /\ wg = 0
    /\ failed = FALSE
    /\ sendErr = Nil
    /\ wpc = [w \in Workers |-> "idle"]
    /\ wtask = [w \in Workers |-> NoTask]
    /\ werr = [w \in Workers |-> Nil]
    /\ recvCount = {}
    /\ callCount = {}
    /\ writeCount = {}
    /\ arrivals = <<>>
    /\ firstStore = Nil
    /\ lateFails = 0
    /\ lateWrites = 0
    /\ recorded = 0
    /\ declined = {}
    /\ tempDir = "absent"
    /\ bufferPool = {}
    /\ bufData = <<>>
    /\ wbuf = [w \in Workers |-> 0]
    /\ extractCalls = 0
    /\ readFiles = {}
    /\ firstStorer = 0

\* Every call, on the files that reach the worker pool, for every worker count.
Init ==
    /\ input \in SeqsUpTo(PoolFiles, MaxFiles)
    /\ \/ mode = "unique" /\ format = ""
       \/ mode = "fromfile" /\ format \in Formats \ {"PNG"}
    \* PIXF_WORKERS is read by processImagesConcurrently only
    /\ IF Concurrent(mode, format) THEN env \in EnvValues ELSE env = ""
    /\ fault = "none"
    /\ run = 1
    /\ prevOut = {}
    /\ Fresh

\* The same with fewer workers, for the repeated calls and for
\* progress under fairness.
InitFew ==
    /\ input \in SeqsUpTo(PoolFiles, MaxFiles)
    /\ \/ mode = "unique" /\ format = ""
       \/ mode = "fromfile" /\ format \in Formats \ {"PNG"}
    /\ IF Concurrent(mode, format)
       THEN env \in { ToString(n) : n \in 1..FewWorkers }
       ELSE env = ""
    /\ fault = "none"
    /\ run = 1
    /\ prevOut = {}
    /\ Fresh

\* Every call, on every kind of file, with one worker, with and without a
\* failing system call.
InitFiles ==
    /\ input \in SeqsUpTo(FileUniverse, MaxFiles)
    /\ \/ mode = "unique" /\ format = ""
       \/ mode = "fromfile" /\ format \in Formats
    /\ IF Concurrent(mode, format) THEN env = "1" ELSE env = ""
    /\ fault \in IF mode = "unique" THEN Faults \ {"mkdirtemp"} ELSE Faults
    /\ run = 1
    /\ prevOut = {}
    /\ Fresh

\* ------------------------------------------------------------- the caller

poolVars == <<tasks, numWorkers, chanVars, workVars>>

Return(e) == pc' = "returned" /\ result' = e

\* A return of extractImagesOriginal or extractImagesConcurrent after
\* os.MkdirTemp: defer os.RemoveAll(tempDir).
ReturnDeferred(e) == Return(e) /\ tempDir' = "removed"

\* ExtractImagesUnique up to the loop: os.Mkdir, api.ExtractImagesFile into
\* imgDir itself, os.ReadDir.
StartUnique ==
    /\ pc = "start" /\ mode = "unique"
    /\ IF fault = "mkdir"
       THEN /\ Return(Err("mkdir", "imgDir"))
            /\ UNCHANGED <<files, imgDir, extractCalls>>
       ELSE IF fault = "extract"
       THEN /\ Return(Err("api.ExtractImagesFile", ""))
            /\ extractCalls' = extractCalls + 1
            /\ UNCHANGED <<files, imgDir>>
       ELSE /\ extractCalls' = extractCalls + 1
            /\ imgDir' = { [name |-> FileName(k, input[k]), bytes |-> Raw(input[k].data)]
                           : k \in 1..Len(input) }
            /\ IF fault = "readdir"
               THEN Return(Err("read dir", "imgDir")) /\ UNCHANGED files
               ELSE files' = input /\ pc' = "unique" /\ UNCHANGED result
    /\ UNCHANGED <<callVars, runVars, tempDir, bufVars, readFiles, firstStorer,
                   encoder, loopVars, poolVars, histVars>>

\* One iteration of the loop of ExtractImagesUnique: every entry is hashed
\* (no extension filter); a repeated hash removes the file from imgDir.
UniqueStep ==
    /\ pc = "unique" /\ i <= Len(files)
    /\ LET f == files[i]
           fileHash == hashBytes(f.data)
       IN  IF ~f.readable
           THEN /\ Return(Err("read", FileName(i, f)))
                /\ UNCHANGED <<imgDir, loopVars>>
           ELSE IF fileHash \notin seen
           THEN /\ seen' = MarkSeen(seen, fileHash)
                /\ kept' = Append(kept, i)
                /\ i' = i + 1
                /\ UNCHANGED <<pc, result, imgDir, dupCount, uniqueCount,
                               loadedImages, uniqueImages>>
           ELSE /\ imgDir' = { e \in imgDir : e.name # FileName(i, f) }
                /\ dupCount' = dupCount + 1
                /\ i' = i + 1
                /\ UNCHANGED <<pc, result, seen, kept, uniqueCount,
                               loadedImages, uniqueImages>>
    /\ readFiles' = readFiles \cup {i}
    /\ UNCHANGED <<callVars, runVars, tempDir, bufVars, extractCalls, firstStorer,
                   files, encoder, poolVars, histVars>>

UniqueDone ==
    /\ pc = "unique" /\ i > Len(files)
    /\ Return(Nil)
    /\ UNCHANGED <<callVars, runVars, tempDir, bufVars, ioVars, files, imgDir, encoder, loopVars, poolVars, histVars>>

\* ExtractImagesFromFile: os.Mkdir, then the dispatch on format; GetEncoder
\* precedes every other step of the re-encoding path.
StartFromFile ==
    /\ pc = "start" /\ mode = "fromfile"
    /\ IF fault = "mkdir"
       THEN /\ Return(Err("mkdir", "imgDir"))
            /\ UNCHANGED encoder
       ELSE IF format = "original" \/ format = ""
       THEN /\ pc' = "extractOriginal"
            /\ UNCHANGED <<result, encoder>>
       ELSE IF GetEncoderOK(format)
       THEN /\ encoder' = GetEncoder(format)
            /\ pc' = "extractConcurrent"
            /\ UNCHANGED result
       ELSE /\ Return(Err("unsupported format", ToLower(format)))
            /\ UNCHANGED encoder
    /\ UNCHANGED <<callVars, runVars, tempDir, bufVars, ioVars, files, imgDir, loopVars, poolVars, histVars>>

\* extractImagesOriginal: os.MkdirTemp, api.ExtractImagesFile, os.ReadDir.
ExtractOriginal ==
    /\ pc = "extractOriginal"
    /\ IF fault = "mkdirtemp"
       THEN /\ Return(Err("create temp dir", ""))
            /\ UNCHANGED <<files, tempDir, extractCalls>>
       ELSE IF fault = "extract"
       THEN /\ Return(Err("api.ExtractImagesFile", ""))
            /\ extractCalls' = extractCalls + 1
            /\ tempDir' = "removed"
            /\ UNCHANGED files
       ELSE IF fault = "readdir"
       THEN /\ Return(Err("read temp dir", ""))
            /\ extractCalls' = extractCalls + 1
            /\ tempDir' = "removed"
            /\ UNCHANGED files
       ELSE /\ extractCalls' = extractCalls + 1
            /\ tempDir' = "present"
            /\ files' = input
            /\ pc' = "sequential"
            /\ UNCHANGED result
    /\ UNCHANGED <<callVars, runVars, bufVars, readFiles, firstStorer,
                   imgDir, encoder, loopVars, poolVars, histVars>>

\* Faulty variant: the counter also counts the file just skipped over.
IncrementTwice(n) == n + 2

\* uniqueCount++
Increment(n) == n + 1

\* One iteration of the loop of processExtractedFilesSequential.
SequentialStep ==
    /\ pc = "sequential" /\ i <= Len(files)
    /\ LET f == files[i]
           hash == hashBytes(f.data)
           ext0 == ToLower(Ext(f))
           origExt == IF ext0 = "" THEN ".png" ELSE ext0
           dstPath == ImageName(uniqueCount, origExt)
       IN  IF ~isImageFile(f)
           THEN /\ i' = i + 1
                /\ UNCHANGED <<pc, result, imgDir, seen, dupCount, uniqueCount, kept,
                               writeCount, tempDir, readFiles>>
           ELSE IF ~f.readable
           THEN /\ ReturnDeferred(Err("read image", FileName(i, f)))
                /\ readFiles' = readFiles \cup {i}
                /\ UNCHANGED <<imgDir, i, seen, dupCount, uniqueCount, kept, writeCount>>
           ELSE IF hash \in seen
           THEN /\ dupCount' = dupCount + 1
                /\ i' = i + 1
                /\ readFiles' = readFiles \cup {i}
                /\ UNCHANGED <<pc, result, imgDir, seen, uniqueCount, kept, writeCount,
                               tempDir>>
           ELSE /\ seen' = MarkSeen(seen, hash)
                /\ kept' = Append(kept, i)
                /\ readFiles' = readFiles \cup {i}
                /\ imgDir' = WriteFile(imgDir, dstPath, Raw(f.data))
                /\ writeCount' = Bump(writeCount, dstPath)
                /\ IF TooBig(Raw(f.data))
                   THEN /\ ReturnDeferred(Err("write image", dstPath))
                        /\ UNCHANGED <<i, uniqueCount, dupCount>>
                   ELSE /\ uniqueCount' = Increment(uniqueCount)
                        /\ i' = i + 1
                        /\ UNCHANGED <<pc, result, dupCount, tempDir>>
    /\ UNCHANGED <<callVars, runVars, bufVars, extractCalls, firstStorer,
                   files, encoder, loadedImages, uniqueImages,
                   poolVars, recvCount, callCount, arrivals, firstStore,
                   lateFails, lateWrites, recorded, declined>>

SequentialDone ==
    /\ pc = "sequential" /\ i > Len(files)
    /\ ReturnDeferred(Nil)
    /\ UNCHANGED <<callVars, runVars, bufVars, ioVars, files, imgDir, encoder, loopVars,
                   poolVars, histVars>>

\* extractImagesConcurrent up to the loop: os.MkdirTemp, api.ExtractImagesFile,
\* os.ReadDir.
ExtractConcurrent ==
    /\ pc = "extractConcurrent"
    /\ IF fault = "mkdirtemp"
       THEN /\ Return(Err("create temp dir", ""))
            /\ UNCHANGED <<files, tempDir, extractCalls>>
       ELSE IF fault = "extract"
       THEN /\ Return(Err("api.ExtractImagesFile", ""))
            /\ extractCalls' = extractCalls + 1
            /\ tempDir' = "removed"
            /\ UNCHANGED files
       ELSE IF fault = "readdir"
       THEN /\ Return(Err("read temp dir", ""))
            /\ extractCalls' = extractCalls + 1
            /\ tempDir' = "removed"
            /\ UNCHANGED files
       ELSE /\ extractCalls' = extractCalls + 1
            /\ tempDir' = "present"
            /\ files' = input
            /\ pc' = "load"
            /\ UNCHANGED result
    /\ UNCHANGED <<callVars, runVars, bufVars, readFiles, firstStorer,
                   imgDir, encoder, loopVars, poolVars, histVars>>

\* One iteration of the loading loop of extractImagesConcurrent.
LoadStep ==
    /\ pc = "load" /\ i <= Len(files)
    /\ LET f == files[i]
       IN  IF ~isImageFile(f)
           THEN /\ i' = i + 1
                /\ UNCHANGED <<pc, result, loadedImages, tempDir, readFiles>>
           ELSE IF ~f.readable
           THEN /\ ReturnDeferred(Err("read file data", FileName(i, f)))
                /\ readFiles' = readFiles \cup {i}
                /\ UNCHANGED <<i, loadedImages>>
           ELSE IF DecodeFails(f.data)
           THEN /\ ReturnDeferred(Err("decode image", FileName(i, f)))
                /\ readFiles' = readFiles \cup {i}
                /\ UNCHANGED <<i, loadedImages>>
           ELSE /\ loadedImages' = Append(loadedImages,
                        \* pos: the file's place in the listing (for observation only)
                        [Img |-> toRGBA(f.data), FileHash |-> hashBytes(f.data),
                         pos |-> i])
                /\ readFiles' = readFiles \cup {i}
                /\ i' = i + 1
                /\ UNCHANGED <<pc, result, tempDir>>
    /\ UNCHANGED <<callVars, runVars, bufVars, extractCalls, firstStorer,
                   files, imgDir, encoder, seen, dupCount,
                   uniqueCount, uniqueImages, kept, poolVars, histVars>>

\* The end of the loading loop: nothing loaded returns nil.
LoadDone ==
    /\ pc = "load" /\ i > Len(files)
    /\ IF Len(loadedImages) = 0
       THEN ReturnDeferred(Nil) /\ UNCHANGED i
       ELSE pc' = "dedup" /\ i' = 1 /\ UNCHANGED <<result, tempDir>>
    /\ UNCHANGED <<callVars, runVars, bufVars, ioVars, files, imgDir, encoder, seen,
                   dupCount, uniqueCount, loadedImages, uniqueImages, kept, poolVars,
                   histVars>>

\* One iteration of the deduplication loop of extractImagesConcurrent.
DedupStep ==
    /\ pc = "dedup" /\ i <= Len(loadedImages)
    /\ LET li == loadedImages[i]
       IN  IF li.FileHash \in seen
           THEN /\ dupCount' = dupCount + 1
                /\ UNCHANGED <<seen, uniqueImages, kept>>
           ELSE /\ seen' = MarkSeen(seen, li.FileHash)
                /\ uniqueImages' = KeepImage(uniqueImages, li)
                /\ kept' = Append(kept, li.pos)
                /\ UNCHANGED dupCount
    /\ i' = i + 1
    /\ UNCHANGED <<callVars, runVars, tempDir, bufVars, ioVars, pc, result, files, imgDir, encoder,
                   uniqueCount, loadedImages, poolVars, histVars>>

\* ------------------------------------------- processImagesConcurrently

\* Faulty variant: the index is the file's place in the listing.
MakeTasksByPosition(imgs) == [k \in 1..Len(imgs) |-> [Index |-> imgs[k].pos - 1, Img |-> imgs[k].Img]]

\* "Create tasks": the index is the image's place in the unique sequence.
MakeTasks(imgs) == [k \in 1..Len(imgs) |-> [Index |-> k - 1, Img |-> imgs[k].Img]]

\* The end of the deduplication loop and the head of
\* processImagesConcurrently: tasks, worker count, channels, wait group, flag.
DedupDone ==
    /\ pc = "dedup" /\ i > Len(loadedImages)
    /\ tasks' = MakeTasks(uniqueImages)
    /\ numWorkers' = getWorkerCount(env)
    /\ taskChan' = <<>> /\ taskClosed' = FALSE
    /\ resultChan' = <<>> /\ resultClosed' = FALSE
    /\ wg' = 0 /\ failed' = FALSE
    /\ i' = 0
    /\ pc' = "spawn"
    /\ UNCHANGED <<callVars, runVars, tempDir, bufVars, ioVars, result, files, imgDir, encoder, seen, dupCount,
                   uniqueCount, loadedImages, uniqueImages, kept, sendErr, workVars,
                   histVars>>

\* wg.Add(1); go func() {...}(): the next worker starts at its receive.
Spawn ==
    /\ pc = "spawn"
    /\ IF i < numWorkers
       THEN /\ wg' = wg + 1
            /\ wpc' = [wpc EXCEPT ![i + 1] = "recv"]
            /\ i' = i + 1
            /\ UNCHANGED pc
       ELSE /\ pc' = "enqueue"
            /\ i' = 1
            /\ UNCHANGED <<wg, wpc>>
    /\ UNCHANGED <<callVars, runVars, tempDir, bufVars, ioVars, result, files, imgDir, encoder, seen, dupCount,
                   uniqueCount, loadedImages, uniqueImages, kept, tasks, numWorkers,
                   taskChan, taskClosed, resultChan, resultClosed, failed, sendErr,
                   wtask, werr, histVars>>

\* taskChan <- task (capacity len(tasks)), then close(taskChan) and the start
\* of the goroutine that waits for the workers.
Enqueue ==
    /\ pc = "enqueue"
    /\ IF i <= Len(tasks)
       THEN /\ Len(taskChan) < Len(tasks)
            /\ taskChan' = Append(taskChan, tasks[i])
            /\ i' = i + 1
            /\ UNCHANGED <<pc, taskClosed>>
       ELSE /\ taskClosed' = TRUE
            /\ pc' = "collect"
            /\ UNCHANGED <<taskChan, i>>
    /\ UNCHANGED <<callVars, runVars, tempDir, bufVars, ioVars, result, files, imgDir, encoder, seen, dupCount,
                   uniqueCount, loadedImages, uniqueImages, kept, tasks, numWorkers,
                   resultChan, resultClosed, wg, failed, sendErr, workVars, histVars>>

\* Faulty variant: close(resultChan) without wg.Wait().
CloserWithoutWait ==
    /\ pc = "collect" /\ ~resultClosed
    /\ resultClosed' = TRUE
    /\ UNCHANGED <<callVars, runVars, tempDir, bufVars, ioVars, pc, result, files, imgDir, encoder, loopVars,
                   tasks, numWorkers, taskChan, taskClosed, resultChan, wg, failed,
                   sendErr, workVars, histVars>>

\* go func() { wg.Wait(); close(resultChan) }()
Closer ==
    /\ pc = "collect" /\ ~resultClosed
    /\ wg = 0
    /\ resultClosed' = TRUE
    /\ UNCHANGED <<callVars, runVars, tempDir, bufVars, ioVars, pc, result, files, imgDir, encoder, loopVars,
                   tasks, numWorkers, taskChan, taskClosed, resultChan, wg, failed,
                   sendErr, workVars, histVars>>

\* for err := range resultChan: one receive; the first non-nil error is kept.
Collect ==
    /\ pc = "collect"
    /\ Len(resultChan) > 0
    /\ LET err == Head(resultChan)
       IN  sendErr' = FirstError(sendErr, err)
    /\ resultChan' = Tail(resultChan)
    /\ UNCHANGED <<callVars, runVars, tempDir, bufVars, ioVars, pc, result, files, imgDir, encoder, loopVars,
                   tasks, numWorkers, taskChan, taskClosed, resultClosed, wg, failed,
                   workVars, histVars>>

\* The range loop ends on the closed, drained channel: return sendErr, through
\* extractImagesConcurrent.
ReturnPool ==
    /\ pc = "collect"
    /\ Len(resultChan) = 0 /\ resultClosed
    /\ ReturnDeferred(sendErr)
    /\ UNCHANGED <<callVars, runVars, bufVars, ioVars, files, imgDir, encoder, loopVars,
                   poolVars, histVars>>

\* writeImageFile: the path it writes, the error it returns, the directory
\* it leaves.
\* Faulty variant: the name counts the calls made so far.
OutNameByCompletion(enc, index) == ImageName(Cardinality(callCount) + 1, Extension(enc))

OutName(enc, index) == ImageName(index + 1, Extension(enc))

\* A bytes.Buffer is the sequence of the pieces written to it.
\* encoder.Encode(buf, img) appends: the encoding, or what the encoder had
\* written when it gave up.
EncodeInto(buf, enc, img) ==
    Append(buf, IF EncodeFails(enc, img) THEN Truncated(Encode(enc, img))
                ELSE Encode(enc, img))

\* buf.Bytes(): an encoding alone, or an encoding behind older content.
Bytes(buf) ==
    IF Len(buf) = 1 THEN buf[1]
    ELSE [enc |-> "stale", of |-> buf[Len(buf)].of, whole |-> TRUE]

\* Faulty variant: the content stays.
ResetKeeps(buf) == buf

\* buf.Reset()
Reset(buf) == <<>>

\* Faulty variant: the buffer handed out stays in the pool.
TakeLeaves(pool, b) == pool

\* What bufferPool.Get() leaves in the pool, and what bufferPool.Put(buf)
\* makes of it.
Take(pool, b) == pool \ {b}
Put(pool, b) == pool \cup {b}

\* writeImageFile on a buffer of content buf.
writeImageFileErr(buf, img, enc, index) ==
    IF EncodeFails(enc, img) THEN Err("encode", img)
    ELSE IF TooBig(Bytes(EncodeInto(buf, enc, img))) THEN Err("write", OutName(enc, index))
    ELSE Nil

writeImageFileDir(dir, buf, img, enc, index) ==
    IF EncodeFails(enc, img) THEN dir
    ELSE WriteFile(dir, OutName(enc, index), Bytes(EncodeInto(buf, enc, img)))

\* for task := range taskChan: receive a task, or leave on the closed and
\* drained channel (defer wg.Done()).
WRecv(w) ==
    /\ wpc[w] = "recv"
    /\ \/ /\ Len(taskChan) > 0
          /\ wtask' = [wtask EXCEPT ![w] = Head(taskChan)]
          /\ taskChan' = Dequeue(taskChan)
          /\ recvCount' = Bump(recvCount, Head(taskChan).Index)
          /\ wpc' = [wpc EXCEPT ![w] = "check"]
          /\ UNCHANGED wg
       \/ /\ Len(taskChan) = 0 /\ taskClosed
          /\ wpc' = [wpc EXCEPT ![w] = "exited"]
          /\ wg' = wg - 1
          /\ UNCHANGED <<wtask, taskChan, recvCount>>
    /\ UNCHANGED <<callVars, runVars, tempDir, bufVars, ioVars, pc, result, files, imgDir, encoder, loopVars,
                   tasks, numWorkers, taskClosed, resultChan, resultClosed, failed,
                   sendErr, werr, callCount, writeCount, arrivals, firstStore,
                   lateFails, lateWrites, recorded, declined>>

\* Faulty variant: the flag is not consulted.
WCheckIgnoresFlag(w) ==
    /\ wpc[w] = "check"
    /\ wpc' = [wpc EXCEPT ![w] = "getbuf"]
    /\ UNCHANGED <<callVars, runVars, tempDir, bufVars, ioVars, pc, result, files, imgDir, encoder, loopVars,
                   tasks, numWorkers, chanVars, wtask, werr, histVars>>

\* Faulty variant: the early return skips wg.Done().
WCheckWithoutDone(w) ==
    /\ wpc[w] = "check"
    /\ IF failed
       THEN /\ wpc' = [wpc EXCEPT ![w] = "exited"]
            /\ wtask' = [wtask EXCEPT ![w] = NoTask]
            /\ declined' = declined \cup {wtask[w].Index}
       ELSE /\ wpc' = [wpc EXCEPT ![w] = "getbuf"]
            /\ UNCHANGED <<wtask, declined>>
    /\ UNCHANGED <<callVars, runVars, tempDir, bufVars, ioVars, pc, result, files, imgDir, encoder, loopVars,
                   tasks, numWorkers, chanVars, werr, recvCount, callCount, writeCount,
                   arrivals, firstStore, lateFails, lateWrites, recorded>>

\* if failed.Load() { return }
WCheck(w) ==
    /\ wpc[w] = "check"
    /\ IF failed
       THEN /\ wpc' = [wpc EXCEPT ![w] = "exited"]
            /\ wtask' = [wtask EXCEPT ![w] = NoTask]
            /\ wg' = wg - 1
            /\ declined' = declined \cup {wtask[w].Index}
       ELSE /\ wpc' = [wpc EXCEPT ![w] = "getbuf"]
            /\ UNCHANGED <<wtask, wg, declined>>
    /\ UNCHANGED <<callVars, runVars, tempDir, bufVars, ioVars, pc, result, files, imgDir, encoder, loopVars,
                   tasks, numWorkers, taskChan, taskClosed, resultChan, resultClosed,
                   failed, sendErr, werr, recvCount, callCount, writeCount, arrivals,
                   firstStore, lateFails, lateWrites, recorded>>

\* writeImageFile, buf := getBuffer(): a buffer of the pool, or a new one (the
\* pool may have dropped what was put into it).
WGet(w) ==
    /\ wpc[w] = "getbuf"
    /\ \/ \E b \in bufferPool :
             /\ wbuf' = [wbuf EXCEPT ![w] = b]
             /\ bufferPool' = Take(bufferPool, b)
             /\ UNCHANGED bufData
       \/ /\ wbuf' = [wbuf EXCEPT ![w] = Len(bufData) + 1]
          /\ bufData' = Append(bufData, <<>>)
          /\ UNCHANGED bufferPool
    /\ wpc' = [wpc EXCEPT ![w] = "write"]
    /\ UNCHANGED <<callVars, runVars, tempDir, ioVars, pc, result, files, imgDir, encoder,
                   loopVars, tasks, numWorkers, chanVars, wtask, werr, histVars>>

\* err := writeImageFile(task.Img, encoder, imgDir, task.Index), from Encode
\* to the deferred putBuffer(buf).
WWrite(w) ==
    /\ wpc[w] = "write"
    /\ LET t == wtask[w]
           b == wbuf[w]
           err == writeImageFileErr(bufData[b], t.Img, encoder, t.Index)
       IN  /\ werr' = [werr EXCEPT ![w] = err]
           /\ imgDir' = writeImageFileDir(imgDir, bufData[b], t.Img, encoder, t.Index)
           /\ bufData' = [bufData EXCEPT ![b] = Reset(EncodeInto(bufData[b], encoder, t.Img))]
           /\ bufferPool' = Put(bufferPool, b)
           /\ wbuf' = [wbuf EXCEPT ![w] = 0]
           /\ callCount' = Bump(callCount, t.Index)
           /\ writeCount' = IF EncodeFails(encoder, t.Img) THEN writeCount
                             ELSE Bump(writeCount, OutName(encoder, t.Index))
           /\ lateFails' = IF failed /\ err # Nil THEN lateFails + 1 ELSE lateFails
           /\ lateWrites' = IF failed /\ err = Nil THEN lateWrites + 1 ELSE lateWrites
           /\ wpc' = [wpc EXCEPT ![w] = IF err # Nil THEN "store" ELSE "send"]
    /\ UNCHANGED <<callVars, runVars, tempDir, ioVars, pc, result, files, encoder, loopVars,
                   tasks, numWorkers, chanVars, wtask, recvCount, arrivals, firstStore,
                   recorded, declined>>

\* failed.Store(true)
WStore(w) ==
    /\ wpc[w] = "store"
    /\ failed' = TRUE
    /\ firstStore' = IF failed THEN firstStore ELSE werr[w]
    /\ firstStorer' = IF failed THEN firstStorer ELSE w
    /\ wpc' = [wpc EXCEPT ![w] = "send"]
    /\ UNCHANGED <<callVars, runVars, tempDir, bufVars, extractCalls, readFiles,
                   pc, result, files, imgDir, encoder, loopVars,
                   tasks, numWorkers, taskChan, taskClosed, resultChan, resultClosed,
                   wg, sendErr, wtask, werr, recvCount, callCount, writeCount,
                   arrivals, lateFails, lateWrites, recorded, declined>>

\* resultChan <- err (capacity len(tasks)); back to the receive.
WSend(w) ==
    /\ wpc[w] = "send"
    /\ Len(resultChan) < Len(tasks)
    /\ resultChan' = Append(resultChan, werr[w])
    /\ arrivals' = IF werr[w] # Nil THEN Append(arrivals, werr[w]) ELSE arrivals
    /\ recorded' = recorded + 1
    /\ wpc' = [wpc EXCEPT ![w] = "recv"]
    /\ wtask' = [wtask EXCEPT ![w] = NoTask]
    /\ werr' = [werr EXCEPT ![w] = Nil]
    /\ UNCHANGED <<callVars, runVars, tempDir, bufVars, ioVars,
                   pc, result, files, imgDir, encoder, loopVars,
                   tasks, numWorkers, taskChan, taskClosed, resultClosed, wg, failed,
                   sendErr, recvCount, callCount, writeCount, firstStore,
                   lateFails, lateWrites, declined>>

Worker(w) == WRecv(w) \/ WCheck(w) \/ WGet(w) \/ WWrite(w) \/ WStore(w) \/ WSend(w)

\* The same call is made once more, on the same input and environment, into a
\* fresh output directory; the first run's directory is remembered.
Rerun ==
    /\ pc = "returned" /\ run = 1
    /\ run' = 2
    /\ prevOut' = imgDir
    /\ pc' = "start"
    /\ result' = Nil
    /\ files' = <<>>
    /\ imgDir' = {}
    /\ encoder' = ""
    /\ i' = 1
    /\ seen' = {}
    /\ dupCount' = 0
    /\ uniqueCount' = 0
    /\ loadedImages' = <<>>
    /\ uniqueImages' = <<>>
    /\ kept' = <<>>
    /\ tasks' = <<>>
    /\ numWorkers' = 0
    /\ taskChan' = <<>>
    /\ taskClosed' = FALSE
    /\ resultChan' = <<>>
    /\ resultClosed' = FALSE
    /\ wg' = 0
    /\ failed' = FALSE
    /\ sendErr' = Nil
    /\ wpc' = [w \in Workers |-> "idle"]
    /\ wtask' = [w \in Workers |-> NoTask]
    /\ werr' = [w \in Workers |-> Nil]
    /\ recvCount' = {}
    /\ callCount' = {}
    /\ writeCount' = {}
    /\ arrivals' = <<>>
    /\ firstStore' = Nil
    /\ lateFails' = 0
    /\ lateWrites' = 0
    /\ recorded' = 0
    /\ declined' = {}
    /\ tempDir' = "absent"
    /\ extractCalls' = 0
    /\ readFiles' = {}
    /\ firstStorer' = 0
    \* bufferPool is a package variable: it outlives the call
    /\ UNCHANGED <<callVars, bufVars>>

Caller ==
    \/ StartUnique \/ UniqueStep \/ UniqueDone
    \/ StartFromFile
    \/ ExtractOriginal \/ SequentialStep \/ SequentialDone
    \/ ExtractConcurrent \/ LoadStep \/ LoadDone \/ DedupStep \/ DedupDone
    \/ Spawn \/ Enqueue \/ Collect \/ ReturnPool

Next ==
    \/ Caller
    \/ Closer
    \/ \E w \in Workers : Worker(w)

Spec == Init /\ [][Next]_vars

\* Two runs of the same call, one after the other.
NextTwice == Next \/ Rerun

SpecTwice == InitFew /\ [][NextTwice]_vars

SpecFiles == InitFiles /\ [][Next]_vars

\* Go's scheduler lets every runnable goroutine run.
FairSpec ==
    /\ InitFew /\ [][Next]_vars
    /\ WF_vars(Caller)
    /\ WF_vars(Closer)
    /\ \A w \in Workers : WF_vars(Worker(w))

\* ===================================================================== claims

\* The input files a strategy looks at: ExtractImagesUnique hashes every
\* entry, the other two skip unrecognized extensions.
Considered ==
    IF mode = "unique" THEN 1..Len(input)
    ELSE { k \in 1..Len(input) : isImageFile(input[k]) }

Fingerprints == { hashBytes(input[k].data) : k \in Considered }

\* The positions of the first occurrence of each fingerprint, ascending.
FirstOccurrences ==
    { k \in Considered :
        \A j \in Considered : j < k => hashBytes(input[j].data) # hashBytes(input[k].data) }

Ascending(S) ==
    CHOOSE q \in [1..Cardinality(S) -> S] : \A a, b \in 1..Cardinality(S) : a < b => q[a] < q[b]

\* Deduplication is over: the worker pool was set up (load-then-dedup), or the
\* call returned nil (sequential byte-dedup, in-place removal).
PoolStarted == numWorkers > 0
DedupOverConcurrent == Concurrent(mode, format) /\ PoolStarted
DedupOverFiles == ~Concurrent(mode, format) /\ pc = "returned" /\ result = Nil
                  /\ (mode = "unique" \/ format \in {"original", ""})

\* C1: after deduplication the survivors are as many as the distinct
\* fingerprints of the input files, and no two survivors share a fingerprint
\* (uniqueImages for load-then-dedup, the files of imgDir for sequential
\* byte-dedup and in-place removal).
C1_DedupCompleteAndSound ==
    /\ DedupOverConcurrent =>
          /\ Len(uniqueImages) = Cardinality(Fingerprints)
          /\ \A a, b \in 1..Len(uniqueImages) :
                a # b => uniqueImages[a].FileHash # uniqueImages[b].FileHash
    /\ DedupOverFiles =>
          /\ Cardinality(imgDir) = Cardinality(Fingerprints)
          /\ \A e1, e2 \in imgDir :
                e1 # e2 => hashBytes(e1.bytes.of) # hashBytes(e2.bytes.of)

\* C1 witness: load-then-dedup finished on an input with a duplicate and two
\* distinct images.
C1_Witness ==
    DedupOverConcurrent /\ dupCount >= 1 /\ Len(uniqueImages) >= 2

C1_WitnessSequential ==
    DedupOverFiles /\ mode = "fromfile" /\ dupCount >= 1 /\ Cardinality(imgDir) >= 2

C1_WitnessUnique ==
    DedupOverFiles /\ mode = "unique" /\ dupCount >= 1 /\ Cardinality(imgDir) >= 2

\* C2: the deduplicated sequence keeps, for each fingerprint, exactly its
\* first occurrence, in enumeration order: uniqueImages is the loaded image of
\* each first occurrence in ascending position (load-then-dedup), and the file
\* numbered k-1 holds the raw bytes of the k-th first occurrence (sequential
\* byte-dedup).
C2_FirstOccurrenceOrder ==
    LET first == Ascending(FirstOccurrences)
    IN  /\ DedupOverConcurrent =>
              /\ kept = first
              /\ uniqueImages =
                   [k \in 1..Len(first) |->
                      [Img |-> toRGBA(input[first[k]].data),
                       FileHash |-> hashBytes(input[first[k]].data),
                       pos |-> first[k]]]
        /\ (DedupOverFiles /\ mode = "fromfile") =>
              /\ kept = first
              /\ imgDir =
                   { [name |-> ImageName(k - 1, ToLower(input[first[k]].ext)),
                      bytes |-> Raw(input[first[k]].data)] : k \in 1..Len(first) }

\* C2 witness: a duplicate sits between two distinct images, so the survivors
\* are not a prefix of the input.
C2_Witness ==
    /\ DedupOverConcurrent
    /\ Len(input) = 3
    /\ kept = <<1, 3>>

C2_WitnessSequential ==
    /\ DedupOverFiles /\ mode = "fromfile"
    /\ kept = <<1, 3>>

\* C3: in processImagesConcurrently every task is received at most once, no
\* two workers hold the same task, writeImageFile is called at most once per
\* task and every output path is written at most once.
C3_AtMostOnce ==
    Concurrent(mode, format) =>
      /\ \A e \in recvCount : e.n <= 1
      /\ \A e \in callCount : e.n <= 1
      /\ \A e \in writeCount : e.n <= 1
      /\ \A w1, w2 \in Workers :
            (w1 # w2 /\ wtask[w1] # NoTask) => wtask[w1] # wtask[w2]

\* C3 witness: two workers are inside writeImageFile at the same time.
C3_Witness ==
    \E w1, w2 \in Workers :
      w1 # w2 /\ wpc[w1] = "write" /\ wpc[w2] = "write" /\ Cardinality(writeCount) >= 1

\* C4: the task of the k-th unique image carries index k-1 from its creation
\* on, and every file of the output directory named image_<k> holds the
\* encoding of the k-th unique image (cut short only when its write failed),
\* whichever worker wrote it and in whatever order.
C4_IndexBoundBeforeDispatch ==
    DedupOverConcurrent =>
      /\ tasks = [k \in 1..Len(uniqueImages) |->
                    [Index |-> k - 1, Img |-> uniqueImages[k].Img]]
      /\ \A e \in imgDir :
            \E k \in 1..Len(uniqueImages) :
              LET bytes == [enc |-> encoder, of |-> uniqueImages[k].Img, whole |-> TRUE]
              IN  /\ e.name = "image_" \o Pad4(k) \o "." \o encoder
                  /\ Count(callCount, k - 1) = 1
                  /\ IF TooBig(bytes) THEN e.bytes = [bytes EXCEPT !.whole = FALSE]
                                     ELSE e.bytes = bytes

\* C4 witness: the second image's file is on disk before the first image's
\* task has been processed.
C4_Witness ==
    /\ DedupOverConcurrent
    /\ Count(callCount, 0) = 0
    /\ \E e \in imgDir : e.name = "image_0002.webp" /\ e.bytes.whole

\* C6: processImagesConcurrently returns the first non-nil error sent on the
\* result channel, whatever the index of its task, and nil when no worker
\* failed, duplicates or not.
C6_FirstArrivedError ==
    (DedupOverConcurrent /\ pc = "returned") =>
      /\ result = IF arrivals = <<>> THEN Nil ELSE arrivals[1]
      /\ ~failed => result = Nil

\* C6 witness: the tasks of index 0 and 1 both failed and the returned error
\* is the one of index 1, which arrived first.
C6_Witness ==
    /\ DedupOverConcurrent /\ pc = "returned"
    /\ Len(tasks) >= 2
    /\ arrivals = << Err("write", "image_0002.webp"), Err("encode", tasks[1].Img) >>
    /\ result = Err("write", "image_0002.webp")

\* C6 witness for success after discarded duplicates.
C6_WitnessDuplicates ==
    /\ DedupOverConcurrent /\ pc = "returned"
    /\ dupCount >= 1 /\ result = Nil /\ Cardinality(imgDir) >= 1

AllWorkersExited == \A w \in 1..numWorkers : wpc[w] = "exited"

\* C7: processImagesConcurrently returns only after every worker has exited
\* (so nothing is encoded or written after the return); it returns a non-nil
\* error exactly when the failure flag was set, the flag is never cleared, and
\* nothing changes once it has returned.
C7_TerminalState ==
    /\ []((DedupOverConcurrent /\ pc = "returned") =>
            /\ AllWorkersExited /\ wg = 0 /\ resultClosed
            /\ (result # Nil) <=> failed)
    /\ [][failed => failed']_vars
    /\ [][pc = "returned" =>
            /\ pc' = "returned" /\ result' = result
            /\ imgDir' = imgDir /\ callCount' = callCount]_vars

\* C7 witness: a failed batch has returned, with tasks left in the queue.
C7_Witness ==
    /\ DedupOverConcurrent /\ pc = "returned"
    /\ failed /\ result # Nil
    /\ Len(taskChan) >= 1

C7_WitnessCompleted ==
    /\ DedupOverConcurrent /\ pc = "returned"
    /\ ~failed /\ result = Nil /\ numWorkers >= 2 /\ Cardinality(imgDir) >= 2

\* C8: under fair scheduling a started batch returns, with every worker
\* exited and the result channel closed.
C8_BatchReturns ==
    (pc = "spawn") ~> (pc = "returned" /\ resultClosed /\ AllWorkersExited)

\* C8 witness: the batch has returned although workers left early and tasks
\* stay unconsumed in the queue.
C8_Witness ==
    /\ DedupOverConcurrent /\ pc = "returned"
    /\ AllWorkersExited /\ resultClosed
    /\ Len(taskChan) >= 1 /\ declined # {}

InFlight == { w \in Workers : wpc[w] \in {"store", "send"} }

\* C9: a worker that finds the flag set at its check exits without calling
\* writeImageFile on the task it holds and never takes another task; a worker
\* past the check completes writeImageFile whatever the flag, and its result
\* is sent on the result channel.
C9_EventualStop ==
    /\ [][\A w \in Workers :
            (wpc[w] = "check" /\ failed /\ wpc'[w] # "check") =>
               /\ wpc'[w] = "exited"
               /\ imgDir' = imgDir /\ callCount' = callCount /\ recorded' = recorded]_vars
    /\ [][\A w \in Workers : wpc[w] = "exited" => wpc'[w] = "exited"]_vars
    /\ [](Concurrent(mode, format) =>
            \A k \in declined :
               /\ Count(callCount, k) = 0
               /\ \A e \in imgDir : e.name # "image_" \o Pad4(k + 1) \o "." \o encoder)
    /\ [][\A w \in Workers :
            (wpc[w] = "write" /\ wpc'[w] # "write") =>
               /\ wpc'[w] \in {"store", "send"}
               /\ Count(callCount', wtask[w].Index) = 1]_vars
    /\ [][\A w \in Workers :
            (wpc[w] = "store" /\ wpc'[w] # "store") => wpc'[w] = "send"]_vars
    /\ [][\A w \in Workers :
            (wpc[w] = "send" /\ wpc'[w] # "send") =>
               /\ wpc'[w] = "recv"
               /\ resultChan' = Append(resultChan, werr[w])
               /\ recorded' = recorded + 1]_vars
    /\ [](Concurrent(mode, format) =>
            recorded + Cardinality(InFlight) = Cardinality({ e \in callCount : e.n = 1 }))

\* C9 witness: one task was dropped at the flag check and another, in flight
\* when the flag was set, was still written.
C9_Witness ==
    /\ DedupOverConcurrent
    /\ lateWrites >= 1 /\ declined # {}

\* C10: failures or writes after the flag was set happen only with two or
\* more workers and two or more tasks; that such executions exist is the
\* witness.
C10_LateWorkNeedsSeveralWorkers ==
    (Len(arrivals) >= 2 \/ lateFails >= 1 \/ lateWrites >= 1) =>
        (numWorkers >= 2 /\ Len(tasks) >= 2)

\* C10 witness: after the flag was set a second failure was reported and
\* another image was written.
C10_Witness ==
    /\ DedupOverConcurrent
    /\ failed /\ Len(arrivals) >= 2 /\ lateFails >= 1 /\ lateWrites >= 1

\* The same with two workers, in two executions.
C10_WitnessTwoWorkersFailure ==
    DedupOverConcurrent /\ numWorkers = 2 /\ Len(arrivals) >= 2 /\ lateFails >= 1

C10_WitnessTwoWorkersWrite ==
    DedupOverConcurrent /\ numWorkers = 2 /\ lateWrites >= 1

\* What os.WriteFile leaves on disk of the bytes handed to it.
Stored(bytes) == IF TooBig(bytes) THEN Truncated(bytes) ELSE bytes

\* The files sequential byte-dedup has written so far: one per kept file.
WrittenSequential ==
    { [name |-> ImageName(k - 1, ToLower(input[kept[k]].ext)),
       bytes |-> Stored(Raw(input[kept[k]].data))] : k \in 1..Len(kept) }

\* The files the workers have written so far: one per task whose
\* writeImageFile got past the encoder.
WrittenConcurrent ==
    { [name |-> "image_" \o Pad4(k) \o "." \o encoder,
       bytes |-> Stored([enc |-> encoder, of |-> tasks[k].Img, whole |-> TRUE])]
      : k \in { j \in 1..Len(tasks) :
                  Count(callCount, j - 1) = 1 /\ tasks[j].Img # toRGBA("wide") } }

FailedFromFile == mode = "fromfile" /\ pc = "returned" /\ result # Nil

\* C11 as stated: after ExtractImagesFromFile has returned an error the
\* output directory holds no file written by that run.
C11_NoOutputAfterError ==
    FailedFromFile => imgDir = {}

\* C11 as amended: ExtractImagesFromFile returns at the first error and
\* removes the temporary extraction directory, but it removes nothing from
\* the output directory: no file written there ever disappears, and after
\* an error return the directory holds every file written before the return
\* (none when the error precedes the first write: directory creation,
\* format lookup, extraction, listing, and read or decode in
\* load-then-dedup).
C11_ErrorKeepsWrittenFiles ==
    /\ [](FailedFromFile =>
            /\ tempDir # "present"
            /\ result.kind \in {"mkdir", "unsupported format", "create temp dir",
                                "api.ExtractImagesFile", "read temp dir",
                                "read file data", "decode image"} => imgDir = {}
            /\ result.kind \in {"read image", "write image"} => imgDir = WrittenSequential
            /\ result.kind \in {"encode", "write"} => imgDir = WrittenConcurrent)
    /\ [][mode = "fromfile" =>
            \A e \in imgDir : \E e2 \in imgDir' : e2.name = e.name]_vars

\* C11 witness: an error return that leaves output files behind, the
\* temporary directory removed.
C11_Witness ==
    /\ FailedFromFile /\ result.kind = "read image"
    /\ tempDir = "removed" /\ Cardinality(imgDir) >= 2

C11_WitnessConcurrent ==
    /\ FailedFromFile /\ result.kind = "encode"
    /\ tempDir = "removed" /\ Cardinality(imgDir) >= 1

\* C12: a load-then-dedup run in which no task failed and U images survived
\* deduplication ends with exactly the U files image_0001 ... image_<U> with
\* the encoder's extension, the k-th holding the encoding of the k-th first
\* occurrence, whatever the number of workers, the scheduling and the
\* duplicates or skipped files in between.
C12_NamesOverUniqueSequence ==
    (DedupOverConcurrent /\ pc = "returned" /\ ~failed) =>
        LET first == Ascending(FirstOccurrences)
        IN  /\ Cardinality(imgDir) = Len(uniqueImages)
            /\ imgDir =
                 { [name |-> "image_" \o Pad4(k) \o "." \o encoder,
                    bytes |-> [enc |-> encoder,
                               of |-> "rgba:" \o input[first[k]].data,
                               whole |-> TRUE]] : k \in 1..Len(first) }

\* C12 witness: two workers, a duplicate between the two unique images; the
\* third file is written as image_0002.
C12_Witness ==
    /\ DedupOverConcurrent /\ pc = "returned" /\ ~failed
    /\ numWorkers >= 2 /\ kept = <<1, 3>>
    /\ { e.name : e \in imgDir } = {"image_0001.webp", "image_0002.webp"}

\* The same behind a skipped file (one worker).
C12_WitnessSkipped ==
    /\ DedupOverConcurrent /\ pc = "returned" /\ ~failed
    /\ kept = <<2, 3>> /\ ~isImageFile(input[1])
    /\ { e.name : e \in imgDir } = {"image_0001.png", "image_0002.png"}

SequentialRun ==
    mode = "fromfile" /\ format \in {"original", ""} /\ pc \in {"sequential", "returned"}

\* C13: in sequential byte-dedup the counter advances by exactly one for a
\* kept file and stays for a discarded duplicate or a skipped file; at every
\* point of the run the names handed out are image_0000 ... image_<n-1> for
\* the n files kept so far, each handed out once, and every file written
\* holds the raw bytes of its source file.
C13_CounterOverKeptFiles ==
    /\ [](SequentialRun =>
            /\ { e.key : e \in writeCount } =
                 { ImageName(k - 1, ToLower(input[kept[k]].ext)) : k \in 1..Len(kept) }
            /\ \A e \in writeCount : e.n = 1
            /\ Cardinality(writeCount) = Len(kept)
            /\ uniqueCount = Cardinality({ e \in imgDir : e.bytes.whole })
            /\ \A k \in 1..Len(kept) :
                  \E e \in imgDir :
                     /\ e.name = "image_" \o Pad4(k - 1) \o ToLower(input[kept[k]].ext)
                     /\ e.bytes.enc = "raw" /\ e.bytes.of = input[kept[k]].data
                     /\ e.bytes.whole = (k <= uniqueCount))
    /\ [][pc = "sequential" =>
            /\ (kept' # kept /\ pc' = "sequential") => uniqueCount' = uniqueCount + 1
            /\ kept' = kept => uniqueCount' = uniqueCount]_vars

\* C13 witness: a duplicate was discarded between two kept files, which got
\* the names 0 and 1.
C13_Witness ==
    /\ SequentialRun /\ pc = "returned" /\ result = Nil
    /\ kept = <<1, 3>> /\ dupCount = 1 /\ uniqueCount = 2
    /\ { e.name : e \in imgDir } = {"image_0000.png", "image_0001.png"}

\* The same behind a skipped file.
C13_WitnessSkipped ==
    /\ SequentialRun /\ pc = "returned" /\ result = Nil
    /\ kept = <<2, 3>> /\ ~isImageFile(input[1]) /\ uniqueCount = 2

\* The files C14 speaks of: those with a recognized extension and those with
\* none, and among them the first occurrence of each fingerprint.
WithImageOrNoExtension ==
    { k \in 1..Len(input) : isImageFile(input[k]) \/ input[k].ext = "" }

FirstAmong(S) ==
    { k \in S : \A j \in S : j < k => hashBytes(input[j].data) # hashBytes(input[k].data) }

\* C14 as stated: after a successful run of sequential byte-dedup every
\* first occurrence among the files with a recognized extension or with no
\* extension has been written with its raw bytes, under its own extension
\* (in lower case), or under .png when it has none.
C14_ExtensionKeptOrPng ==
    (SequentialRun /\ pc = "returned" /\ result = Nil) =>
        \A k \in FirstAmong(WithImageOrNoExtension) :
            \E e \in imgDir, n \in 0..Len(input) :
                /\ e.bytes = [enc |-> "raw", of |-> input[k].data, whole |-> TRUE]
                /\ e.name = "image_" \o Pad4(n) \o
                               (IF input[k].ext = "" THEN ".png" ELSE ToLower(input[k].ext))

\* C14, what the program does instead: the only input file has no extension,
\* the run succeeds, the file was never read and nothing was written.
C14_Witness ==
    /\ SequentialRun /\ pc = "returned" /\ result = Nil
    /\ Len(input) = 1 /\ input[1].ext = "" /\ input[1].readable
    /\ readFiles = {} /\ imgDir = {}

UnsupportedFormat ==
    mode = "fromfile" /\ format \notin {"original", ""} /\ ToLower(format) \notin {"png", "webp"}

NothingDone ==
    /\ extractCalls = 0 /\ tempDir = "absent" /\ files = <<>>
    /\ readFiles = {} /\ loadedImages = <<>>
    /\ numWorkers = 0 /\ \A w \in Workers : wpc[w] = "idle"
    /\ imgDir = {}

\* C15 as stated: a request for an unregistered format returns the
\* unsupported-format error, with no extraction call, no file read, no worker
\* started and no output file written.
C15_UnsupportedFormatFirst ==
    (UnsupportedFormat /\ pc = "returned") =>
        /\ result = [kind |-> "unsupported format", what |-> format]
        /\ NothingDone

\* C15 as amended: the format is looked up after os.Mkdir of the output
\* directory, so the request returns the unsupported-format error provided
\* the directory exists or can be created, and the error of os.Mkdir
\* otherwise; in both cases it returns in its first step with no extraction
\* call, no file read, no worker started and no output file written.
C15_UnsupportedFormatAfterMkdir ==
    UnsupportedFormat =>
        /\ pc \in {"start", "returned"}
        /\ NothingDone
        /\ pc = "returned" =>
              result = IF fault = "mkdir"
                       THEN [kind |-> "mkdir", what |-> "imgDir"]
                       ELSE [kind |-> "unsupported format", what |-> format]

\* C15 witness: format gif was refused although three files were there to
\* be extracted.
C15_Witness ==
    /\ format = "gif" /\ pc = "returned" /\ Len(input) = 3
    /\ result.kind = "unsupported format" /\ fault # "mkdir"

\* The recognized files that cannot be read or cannot be decoded.
BadFiles ==
    { k \in 1..Len(input) :
        /\ ToLower(input[k].ext) \in {".png", ".jpg", ".jpeg", ".gif", ".bmp", ".tiff", ".webp"}
        /\ (~input[k].readable \/ input[k].data = "junk") }

FirstBadFile == CHOOSE k \in BadFiles : \A j \in BadFiles : k <= j

\* C16: in load-then-dedup, when some recognized file cannot be read or
\* decoded, wherever it stands in the listing, the run never gets past the
\* loading loop: deduplication is not run, no worker is started, no output
\* file is written, and the call returns the read or decode error of the
\* first such file, having read no file behind it.
C16_LoadFailureIsFatal ==
    (mode = "fromfile" /\ ToLower(format) \in {"png", "webp"} /\ BadFiles # {}) =>
        /\ pc \in {"start", "extractConcurrent", "load", "returned"}
        /\ seen = {} /\ uniqueImages = <<>> /\ dupCount = 0
        /\ tasks = <<>> /\ numWorkers = 0 /\ \A w \in Workers : wpc[w] = "idle"
        /\ imgDir = {}
        /\ readFiles \subseteq 1..FirstBadFile
        /\ (pc = "returned" /\ fault = "none") =>
              /\ result.kind = IF input[FirstBadFile].readable
                               THEN "decode image" ELSE "read file data"
              /\ result.what = "p" \o ToString(FirstBadFile) \o input[FirstBadFile].ext
              /\ FirstBadFile \in readFiles

\* C16 witness: the third file could not be decoded after two files had
\* been loaded; nothing was written.
C16_Witness ==
    /\ mode = "fromfile" /\ ToLower(format) \in {"png", "webp"}
    /\ pc = "returned" /\ result.kind = "decode image"
    /\ FirstBadFile = 3 /\ Len(loadedImages) = 2 /\ imgDir = {}

C16_WitnessUnreadable ==
    /\ mode = "fromfile" /\ ToLower(format) \in {"png", "webp"}
    /\ pc = "returned" /\ result.kind = "read file data"
    /\ FirstBadFile = 2 /\ Len(loadedImages) = 1 /\ imgDir = {}

\* No file of the input has a recognized extension (an empty input included).
NoRecognizedFile ==
    \A k \in 1..Len(input) :
        ToLower(input[k].ext) \notin {".png", ".jpg", ".jpeg", ".gif", ".bmp", ".tiff", ".webp"}

SupportedFormat ==
    mode = "fromfile" /\ (format \in {"original", ""} \/ ToLower(format) \in {"png", "webp"})

\* C17: on an input that is empty or holds only files with unrecognized
\* extensions, sequential byte-dedup and load-then-dedup read and decode no
\* file, write no file, start no worker, and return nil once the listing
\* has been gone through.
C17_NothingRecognizedIsSuccess ==
    (SupportedFormat /\ NoRecognizedFile) =>
        /\ readFiles = {} /\ loadedImages = <<>> /\ seen = {}
        /\ imgDir = {}
        /\ tasks = <<>> /\ numWorkers = 0 /\ \A w \in Workers : wpc[w] = "idle"
        /\ pc \in {"start", "extractOriginal", "sequential", "extractConcurrent",
                   "load", "returned"}
        /\ (pc = "returned" /\ fault = "none") => (result = Nil /\ i = Len(input) + 1)

\* C17 witness: three unrecognized files, format png: success, nothing
\* written.
C17_Witness ==
    /\ mode = "fromfile" /\ format = "PNG" /\ fault = "none"
    /\ Len(input) = 3 /\ NoRecognizedFile /\ \E k \in 1..3 : input[k].ext = ".xyz"
    /\ pc = "returned" /\ result = Nil /\ imgDir = {}

C17_WitnessEmpty ==
    /\ SupportedFormat /\ fault = "none" /\ input = <<>>
    /\ pc = "returned" /\ result = Nil /\ imgDir = {}

C17_WitnessSequential ==
    /\ mode = "fromfile" /\ format = "original" /\ fault = "none"
    /\ Len(input) = 3 /\ NoRecognizedFile
    /\ pc = "returned" /\ result = Nil /\ imgDir = {}

Holding == { w \in Workers : wbuf[w] # 0 }

\* C18: a buffer is held by at most one worker and is not in the pool while
\* held; a worker holds a buffer exactly while it is inside writeImageFile,
\* and leaving writeImageFile, with or without an error, resets the buffer
\* and puts it back; every buffer of the pool, and so every buffer handed
\* out, is empty; once the call has returned no buffer is checked out and
\* every buffer made is in the pool.
C18_ExclusiveCheckout ==
    /\ [](/\ \A w1, w2 \in Holding : w1 # w2 => wbuf[w1] # wbuf[w2]
          /\ \A w \in Holding : wbuf[w] \in 1..Len(bufData) /\ wbuf[w] \notin bufferPool
          /\ \A w \in Workers : (wbuf[w] # 0) <=> (wpc[w] = "write")
          /\ \A b \in bufferPool : bufData[b] = <<>>
          /\ \A w \in Holding : bufData[wbuf[w]] = <<>>
          /\ pc = "returned" =>
                (Holding = {} /\ bufferPool = 1..Len(bufData)))
    /\ [][\A w \in Workers :
            (wpc[w] = "write" /\ wpc'[w] # "write") =>
               /\ wpc'[w] \in {"store", "send"}
               /\ wbuf'[w] = 0
               /\ wbuf[w] \in bufferPool'
               /\ bufData'[wbuf[w]] = <<>>]_vars

\* C18 witness: two workers hold the only two buffers made, one of them for
\* the second time, after a call of writeImageFile that failed.
C18_Witness ==
    /\ Cardinality(Holding) = 2 /\ Len(bufData) = 2
    /\ Cardinality(callCount) >= 1 /\ failed

\* The pool after encode and write failures.
C18_WitnessFailurePaths ==
    /\ pc = "returned" /\ Len(arrivals) = 2 /\ arrivals[1].kind # arrivals[2].kind
    /\ Len(bufData) >= 1 /\ bufferPool = 1..Len(bufData)

BatchReturned == Concurrent(mode, format) /\ numWorkers > 0 /\ pc = "returned"

\* C19 as stated: the error returned by the batch is the error of the worker
\* whose store first set the failure flag.
C19_ErrorOfFirstStore ==
    BatchReturned => result = firstStore

\* C19 as amended: the error returned is the first error sent on the result
\* channel, which is the error of one of the failing workers; it is the
\* error of the worker whose store first set the flag whenever a single
\* worker failed (in particular with one worker). When several workers
\* fail, a worker that stored later may send earlier, and then its error
\* is the one returned.
C19_ErrorOfFirstSend ==
    BatchReturned =>
        /\ failed <=> arrivals # <<>>
        /\ failed =>
              /\ result = arrivals[1]
              /\ \E k \in 1..Len(arrivals) : firstStore = arrivals[k]
              /\ Len(arrivals) = 1 => result = firstStore
              /\ result # firstStore => (numWorkers >= 2 /\ Len(arrivals) >= 2)
        /\ ~failed => (result = Nil /\ firstStore = Nil)

\* C19 witness: of several workers one failed, and its error is returned.
C19_Witness ==
    /\ BatchReturned /\ numWorkers >= 2 /\ Len(tasks) >= 2
    /\ Len(arrivals) = 1 /\ result = firstStore /\ result # Nil

\* Two workers failed and the second to store was the first to send.
C19_WitnessOvertaken ==
    /\ BatchReturned /\ Len(arrivals) = 2
    /\ firstStore = arrivals[2] /\ result = arrivals[1] /\ result # firstStore

\* Calls of writeImageFile that ended before, and after, the flag was set.
LateCalls == lateFails + lateWrites
EarlyCalls == Cardinality(callCount) - LateCalls

\* C20: once the failure flag is set, no worker gets past its flag check, so
\* each worker other than the one that set the flag finishes at most the
\* one task it held past the check: at most W-1 calls of writeImageFile end
\* after the flag was set; the worker that set the flag never enters
\* writeImageFile again; and the results recorded never exceed the calls
\* ended before the flag was set plus W-1.
C20_BoundedWorkAfterFailure ==
    /\ [](Concurrent(mode, format) =>
            /\ ~failed => LateCalls = 0
            /\ failed =>
                  /\ LateCalls <= numWorkers - 1
                  /\ firstStorer \in 1..numWorkers
                  /\ wpc[firstStorer] \in {"send", "recv", "check", "exited"}
                  /\ recorded <= EarlyCalls + numWorkers - 1
            /\ recorded <= Cardinality(callCount))
    /\ [][\A w \in Workers :
            (failed /\ wpc[w] = "check" /\ wpc'[w] # "check") => wpc'[w] = "exited"]_vars
    /\ [][LateCalls' # LateCalls =>
            /\ LateCalls' = LateCalls + 1
            /\ \E w \in Workers \ {firstStorer} :
                  wpc[w] = "write" /\ wpc'[w] \in {"store", "send"}]_vars

\* C20 witness: with three workers, two calls ended after the flag was set
\* and all three results were recorded.
C20_Witness ==
    /\ Concurrent(mode, format) /\ failed
    /\ numWorkers = 3 /\ LateCalls = 2 /\ recorded = 3

=============================================================================
